---------------------------- MODULE Spec2Model ----------------------------
(***************************************************************************)
(* Model of receipt-processor.go: an HTTP service that scores a receipt    *)
(* (calculatePoints), stores it in the package-level map `receipts` under  *)
(* a random id (ProcessReceipt, generateID) and returns the stored score   *)
(* (GetPoints).  The map is guarded by the package-level sync.Mutex.       *)
(*                                                                         *)
(* Strings are sequences of runes.  A rune is written as a one-character   *)
(* string, or as "U+XXXX" for a rune outside ASCII.  A string that Go      *)
(* parses (a decimal amount, a date, a time) is a record holding its text  *)
(* and the fields the parser reads from it; the parser is modelled by what *)
(* it returns, including the zero value it returns with an error.          *)
(***************************************************************************)
EXTENDS Integers, Sequences, FiniteSets, TLC

(***************************************************************************)
(* Bounds of the model.                                                    *)
(***************************************************************************)
\* handlers running concurrently (net/http starts one goroutine per request)
NumHandlers == 2
\* requests served in one behaviour
MaxRequests == 3
\* items on a receipt given to calculatePoints in ScoreSpec
MaxItems == 2

(***************************************************************************)
(* Runes: package unicode and UTF-8.                                       *)
(***************************************************************************)
AsciiLetters ==
    {"a","b","c","d","e","f","g","h","i","j","k","l","m",
     "n","o","p","q","r","s","t","u","v","w","x","y","z",
     "A","B","C","D","E","F","G","H","I","J","K","L","M",
     "N","O","P","Q","R","S","T","U","V","W","X","Y","Z"}

AsciiDigits == {"0","1","2","3","4","5","6","7","8","9"}

\* U+00E9 LATIN SMALL LETTER E WITH ACUTE (category Ll), 2 bytes in UTF-8
\* U+0663 ARABIC-INDIC DIGIT THREE (category Nd), 2 bytes in UTF-8
\* U+00A0 NO-BREAK SPACE (White_Space), 2 bytes in UTF-8
TwoByteRunes == {"U+00E9", "U+0663", "U+00A0"}

\* unicode.IsLetter
IsLetter(c) == c \in AsciiLetters \cup {"U+00E9"}

\* unicode.IsDigit
IsDigit(c) == c \in AsciiDigits \cup {"U+0663"}

\* unicode.IsSpace, the test strings.TrimSpace applies to each end
IsSpace(c) == c \in {" ", "\t", "\n", "U+00A0"}

\* bytes of the rune's UTF-8 encoding
RuneLen(c) == IF c \in TwoByteRunes THEN 2 ELSE 1

\* len(s) of a Go string: its length in bytes
RECURSIVE ByteLen(_)
ByteLen(s) == IF s = <<>> THEN 0 ELSE RuneLen(Head(s)) + ByteLen(Tail(s))

RECURSIVE TrimLeft(_)
TrimLeft(s) ==
    IF s # <<>> /\ IsSpace(Head(s)) THEN TrimLeft(Tail(s)) ELSE s

RECURSIVE TrimRight(_)
TrimRight(s) ==
    IF s # <<>> /\ IsSpace(s[Len(s)])
    THEN TrimRight(SubSeq(s, 1, Len(s) - 1))
    ELSE s

\* strings.TrimSpace
TrimSpace(s) == TrimRight(TrimLeft(s))

(***************************************************************************)
(* strconv.ParseFloat and the float64 arithmetic of rules 2, 3 and 5.      *)
(* An amount string is [text, syntax, cents]: syntax says whether the text *)
(* is a decimal literal, cents is its value in hundredths.  A float64 that *)
(* came from such a literal is represented by that number of hundredths.   *)
(***************************************************************************)
\* the err of strconv.ParseFloat(s, 64) is not nil
FloatError(s) == ~s.syntax

\* strconv.ParseFloat(s, 64) with the error dropped: 0 on a syntax error
ParseFloat(s) == IF FloatError(s) THEN 0 ELSE s.cents

\* total == float64(int(total))
IsWholeNumber(v) == v % 100 = 0

\* The hundredths values v in 0..1300 for which the float64 product
\* (v/100)*100 is just below v, so that int() truncates it to v-1
\* (2.01*100 = 200.99999999999997).  For every other v in 0..1300 the
\* product is exactly v.
ProductBelow ==
    {29, 57, 58, 113, 114, 115, 116, 201, 203, 205, 207, 226, 228, 230,
     232, 251, 253, 255, 402, 406, 410, 414, 427, 431, 435, 439, 452, 456,
     460, 464, 477, 481, 485, 489, 502, 506, 510, 803, 804, 812, 820, 828,
     829, 837, 845, 853, 854, 862, 870, 878, 879, 887, 895, 903, 904, 912,
     920, 928, 929, 937, 945, 953, 954, 962, 970, 978, 979, 987, 995, 1003,
     1004, 1012, 1020}

\* int(total*100)
IntTimes100(v) ==
    IF v >= 0
    THEN (IF v \in ProductBelow THEN v - 1 ELSE v)
    ELSE (IF (0 - v) \in ProductBelow THEN v + 1 ELSE v)

\* int(math.Ceil(price * 0.2)); for -1300..1300 hundredths the float64
\* product rounds to the same integer as the exact ceil(v/500)
CeilFifth(v) == 0 - ((0 - v) \div 500)

(***************************************************************************)
(* time.Parse.  A date string is [text, layout, year, month, day] and a    *)
(* time string is [text, layout, hour, minute]: layout says whether the    *)
(* text has the shape of the layout, the numbers are the fields read.      *)
(* time.Parse returns the zero Time (January 1, year 1, 00:00) together    *)
(* with any error, a field out of range included.                          *)
(***************************************************************************)
ZeroTime == [year |-> 1, month |-> 1, day |-> 1, hour |-> 0, minute |-> 0]

IsLeap(y) == (y % 4 = 0 /\ y % 100 # 0) \/ y % 400 = 0

DaysIn(m, y) ==
    IF m = 2 THEN (IF IsLeap(y) THEN 29 ELSE 28)
    ELSE IF m \in {4, 6, 9, 11} THEN 30 ELSE 31

\* the err of time.Parse("2006-01-02", s) is not nil
DateError(s) ==
    ~(s.layout /\ s.month \in 1..12 /\ s.day \in 1..DaysIn(s.month, s.year))

\* time.Parse("2006-01-02", s) with the error dropped
ParseDate(s) ==
    IF DateError(s) THEN ZeroTime
    ELSE [year |-> s.year, month |-> s.month, day |-> s.day,
          hour |-> 0, minute |-> 0]

\* the err of time.Parse("15:04", s) is not nil
TimeError(s) == ~(s.layout /\ s.hour \in 0..23 /\ s.minute \in 0..59)

\* time.Parse("15:04", s) with the error dropped
ParseTime(s) ==
    IF TimeError(s) THEN ZeroTime
    ELSE [year |-> 0, month |-> 1, day |-> 1,
          hour |-> s.hour, minute |-> s.minute]

\* t.After / t.Before against time.Date(t.Year(), t.Month(), t.Day(), h, 0, ...)
MinuteOfDay(t) == t.hour * 60 + t.minute

(***************************************************************************)
(* calculatePoints: the contribution of each rule.                         *)
(***************************************************************************)
\* the string built by the loop of rule 1: the letters and digits kept
RECURSIVE Alphanumeric(_)
Alphanumeric(s) ==
    IF s = <<>> THEN <<>>
    ELSE IF IsLetter(Head(s)) \/ IsDigit(Head(s))
         THEN <<Head(s)>> \o Alphanumeric(Tail(s))
         ELSE Alphanumeric(Tail(s))

\* points += len(alphanumericRetailer)
Rule1Points(retailer) == ByteLen(Alphanumeric(retailer))

Rule2Points(totalText) ==
    IF IsWholeNumber(ParseFloat(totalText)) THEN 50 ELSE 0

Rule3Points(totalText) ==
    IF IntTimes100(ParseFloat(totalText)) % 25 = 0 THEN 25 ELSE 0

\* faulty variant of rule 4: an odd item left over counts as a pair
Rule4MutRoundUp(items) == ((Len(items) + 1) \div 2) * 5

Rule4Points(items) == (Len(items) \div 2) * 5

\* one iteration of the loop of rule 5
Rule5ItemPoints(item) ==
    LET trimmedLength == ByteLen(TrimSpace(item.ShortDescription))
        itemPoints    == CeilFifth(ParseFloat(item.Price))
    IN  IF trimmedLength % 3 = 0 /\ itemPoints > 0 THEN itemPoints ELSE 0

RECURSIVE Rule5Points(_)
Rule5Points(items) ==
    IF items = <<>> THEN 0
    ELSE Rule5ItemPoints(Head(items)) + Rule5Points(Tail(items))

Rule6Points(dateText) ==
    IF ParseDate(dateText).day % 2 # 0 THEN 6 ELSE 0

Rule7Points(timeText) ==
    LET t == ParseTime(timeText)
    IN  IF MinuteOfDay(t) > 14 * 60 /\ MinuteOfDay(t) < 16 * 60
        THEN 10 ELSE 0

\* the value calculatePoints leaves in receipt.Points
PointsOf(r) ==
    Rule1Points(r.Retailer) + Rule2Points(r.Total) + Rule3Points(r.Total)
    + Rule4Points(r.Items) + Rule5Points(r.Items)
    + Rule6Points(r.PurchaseDate) + Rule7Points(r.PurchaseTime)

\* calculatePoints(&receipt): the receipt with Points overwritten
calculatePoints(r) == [r EXCEPT !.Points = PointsOf(r)]

(***************************************************************************)
(* The receipts the model submits and scores.                              *)
(***************************************************************************)
\* "Target"
Target ==
    <<"T","a","r","g","e","t">>

\* "M&M Corner Market"
MMCornerMarket ==
    <<"M","&","M"," ","C","o","r","n","e","r"," ","M","a","r","k","e","t">>

\* "Caf<U+00E9> <U+0663>"
CafeThree ==
    <<"C","a","f","U+00E9"," ","U+0663">>

\* "Mountain Dew 12PK"
MountainDew ==
    <<"M","o","u","n","t","a","i","n"," ","D","e","w"," ","1","2","P","K">>

\* "   Klarbrunn 12-PK 12 FL OZ  "
Klarbrunn ==
    <<" "," "," ","K","l","a","r","b","r","u","n","n"," ","1","2","-","P",
      "K"," ","1","2"," ","F","L"," ","O","Z"," "," ">>

\* "  "
Blank ==
    <<" "," ">>

\* "<U+00E9>t<U+00E9>"
Ete ==
    <<"U+00E9","t","U+00E9">>

\* "Gum"
Gum ==
    <<"G","u","m">>

Amount(text, cents) == [text |-> text, syntax |-> TRUE, cents |-> cents]

NotAnAmount(text) == [text |-> text, syntax |-> FALSE, cents |-> 0]

DateText(text, y, m, d) ==
    [text |-> text, layout |-> TRUE, year |-> y, month |-> m, day |-> d]

NotADate(text) ==
    [text |-> text, layout |-> FALSE, year |-> 0, month |-> 0, day |-> 0]

TimeText(text, h, m) ==
    [text |-> text, layout |-> TRUE, hour |-> h, minute |-> m]

NotATime(text) == [text |-> text, layout |-> FALSE, hour |-> 0, minute |-> 0]

\* type Item
Item(desc, price) == [ShortDescription |-> desc, Price |-> price]

\* type Receipt
Receipt(retailer, date, time, items, total, pts) ==
    [Retailer |-> retailer, PurchaseDate |-> date, PurchaseTime |-> time,
     Items |-> items, Total |-> total, Points |-> pts]

Retailers == {Target, MMCornerMarket, CafeThree}

Totals ==
    {Amount("6.49", 649), Amount("9.00", 900), Amount("2.01", 201),
     NotAnAmount("abc")}

Dates ==
    {DateText("2022-01-01", 2022, 1, 1), DateText("2022-03-20", 2022, 3, 20),
     DateText("2022-02-30", 2022, 2, 30), NotADate("01/02/2022")}

Times ==
    {TimeText("13:01", 13, 1), TimeText("14:00", 14, 0),
     TimeText("15:59", 15, 59), TimeText("16:00", 16, 0), NotATime("2pm")}

ItemChoices ==
    {Item(MountainDew, Amount("6.49", 649)),
     Item(Klarbrunn, Amount("12.00", 1200)),
     Item(<<>>, Amount("5.00", 500)),
     Item(Blank, NotAnAmount("free")),
     Item(Ete, Amount("10.00", 1000)),
     Item(Gum, NotAnAmount("abc")),
     Item(Gum, Amount("-5.00", 0 - 500))}

ItemLists == UNION {[1..n -> ItemChoices] : n \in 0..MaxItems}

\* a receipt from Target with one item, bought 2022-01-01 at 13:01
TargetReceipt ==
    Receipt(Target, DateText("2022-01-01", 2022, 1, 1),
            TimeText("13:01", 13, 1),
            <<Item(MountainDew, Amount("6.49", 649))>>,
            Amount("6.49", 649), 0)

\* the receipts calculatePoints is applied to in ScoreSpec
ScoreInputs ==
    {Receipt(rt, d, t, its, tot, 0) :
        rt \in Retailers, d \in Dates, t \in Times, its \in ItemLists,
        tot \in Totals}

\* the receipts clients submit to the server: the second one carries a
\* "points" member of its own
Submissions ==
    {TargetReceipt,
     Receipt(MMCornerMarket, DateText("2022-03-20", 2022, 3, 20),
             TimeText("15:59", 15, 59), <<>>, Amount("9.00", 900), 7)}

(***************************************************************************)
(* encoding/json: a request body is [valid, members]; valid says whether   *)
(* the text is a JSON object whose members have the types of Receipt,      *)
(* members maps the member names present to their values.                  *)
(***************************************************************************)
JsonKeys == {"retailer", "purchaseDate", "purchaseTime", "items", "total"}

\* the body a client writes for receipt r; "points" is sent when not 0
JsonOf(r) ==
    [valid   |-> TRUE,
     members |-> [k \in JsonKeys \cup (IF r.Points # 0 THEN {"points"} ELSE {}) |->
                    CASE k = "retailer"     -> r.Retailer
                      [] k = "purchaseDate" -> r.PurchaseDate
                      [] k = "purchaseTime" -> r.PurchaseTime
                      [] k = "items"        -> r.Items
                      [] k = "total"        -> r.Total
                      [] k = "points"       -> r.Points]]

MalformedBody == [valid |-> FALSE, members |-> [k \in {} |-> 0]]

Bodies == {JsonOf(r) : r \in Submissions} \cup {MalformedBody}

\* the err of json.NewDecoder(r.Body).Decode(&receipt) is not nil
DecodeError(body) == ~body.valid

\* the Receipt that Decode fills in: a member sets its field (the tag
\* `json:"points,omitempty"` names Points), a missing member leaves the
\* zero value
Decode(body) ==
    LET m == body.members
    IN  [Retailer     |-> m["retailer"],
         PurchaseDate |-> m["purchaseDate"],
         PurchaseTime |-> m["purchaseTime"],
         Items        |-> m["items"],
         Total        |-> m["total"],
         Points       |-> IF "points" \in DOMAIN m THEN m["points"] ELSE 0]

(***************************************************************************)
(* Identifiers.  generateID hex-encodes 16 bytes of crypto/rand: any id    *)
(* may come out of any call, one drawn before included.                    *)
(***************************************************************************)
IDs == {"a3f1", "7c02"}

\* the second path segment of a request to /receipts/.../points; the path
\* /receipts/points gives "points", which generateID never returns
PathIDs == IDs \cup {"points"}

\* the results of generateID(): an id with a nil error, or "" with the
\* error of rand.Read
GenerateIDResults ==
    {[id |-> i, err |-> FALSE] : i \in IDs} \cup {[id |-> "", err |-> TRUE]}

Handlers == 1..NumHandlers

\* sync.Mutex unlocked
Unlocked == 0

(***************************************************************************)
(* State.                                                                  *)
(***************************************************************************)
VARIABLES
    receipts,   \* var receipts map[string]Receipt
    mutex,      \* var mutex sync.Mutex: Unlocked, or the handler holding it
    pc,         \* per handler: where its request stands
    local,      \* per handler: the locals receipt and id of its request
    resp,       \* per handler: what its request wrote to the ResponseWriter
    nreq,       \* requests accepted so far
    issued,     \* history: per id, the receipts whose submission returned it
    receipt,    \* calculatePoints: the Receipt its argument points to
    points,     \* calculatePoints: the local variable points
    pcCalc,     \* calculatePoints: the rule about to run
    itemIdx     \* calculatePoints: position of the range loop of rule 5

serverVars == <<receipts, mutex, pc, local, resp, nreq, issued>>

calcVars == <<receipt, points, pcCalc, itemIdx>>

vars == <<receipts, mutex, pc, local, resp, nreq, issued,
          receipt, points, pcCalc, itemIdx>>

EmptyMap == [k \in {} |-> 0]

NoReceipt == Receipt(<<>>, NotADate(""), NotATime(""), <<>>, NotAnAmount(""), 0)

NoLocal == [receipt |-> NoReceipt, submitted |-> NoReceipt, id |-> ""]

\* a response: the status, and the body as an {"id": ...} object, a
\* {"points": ...} object or plain text
Response(status, kind, id, pts, text) ==
    [status |-> status, kind |-> kind, id |-> id, points |-> pts,
     text |-> text]

\* type PointsResponse sent by jsonResponse: status 200, {"points": n}
PointsResponse(n) == Response(200, "points", "", n, "")

\* nothing written yet
NoResponse == Response(0, "none", "", 0, "")

ServerInit ==
    /\ receipts = EmptyMap
    /\ mutex = Unlocked
    /\ pc = [p \in Handlers |-> "idle"]
    /\ local = [p \in Handlers |-> NoLocal]
    /\ resp = [p \in Handlers |-> NoResponse]
    /\ nreq = 0
    /\ issued = EmptyMap

CalcIdle ==
    /\ receipt = NoReceipt
    /\ points = 0
    /\ pcCalc = "idle"
    /\ itemIdx = 1

(***************************************************************************)
(* sync.Mutex and the map.                                                 *)
(***************************************************************************)
\* faulty variant of Lock: takes the mutex without waiting for it
MutexLockNoWait(p) == mutex' = p

\* mutex.Lock(): blocks until the mutex is unlocked
MutexLock(p) == mutex = Unlocked /\ mutex' = p

\* mutex.Unlock()
MutexUnlock(p) == mutex' = Unlocked

\* faulty variant of the insert: the map is replaced by the new record
PutAlone(m, id, r) == [k \in {id} |-> r]

\* m[id] = r
Put(m, id, r) ==
    [k \in DOMAIN m \cup {id} |-> IF k = id THEN r ELSE m[k]]

(***************************************************************************)
(* ProcessReceipt.                                                         *)
(***************************************************************************)
\* lines 64-71: the request arrives and its body is decoded
ProcessReceiptDecode(p) ==
    /\ pc[p] = "idle"
    /\ nreq < MaxRequests
    /\ nreq' = nreq + 1
    /\ \E body \in Bodies :
         IF DecodeError(body)
         THEN /\ resp' = [resp EXCEPT ![p] =
                            Response(400, "text", "", 0, "decode error")]
              /\ local' = local
              /\ pc' = [pc EXCEPT ![p] = "pr_return"]
         ELSE /\ local' = [local EXCEPT ![p] =
                            [receipt |-> Decode(body),
                             submitted |-> Decode(body), id |-> ""]]
              /\ resp' = resp
              /\ pc' = [pc EXCEPT ![p] = "pr_lock"]
    /\ UNCHANGED <<receipts, mutex, issued, calcVars>>

\* line 70: the return before the mutex is touched
ProcessReceiptReject(p) ==
    /\ pc[p] = "pr_return"
    /\ pc' = [pc EXCEPT ![p] = "idle"]
    /\ resp' = [resp EXCEPT ![p] = NoResponse]
    /\ UNCHANGED <<receipts, mutex, local, nreq, issued, calcVars>>

\* line 74
ProcessReceiptLock(p) ==
    /\ pc[p] = "pr_lock"
    /\ MutexLock(p)
    /\ pc' = [pc EXCEPT ![p] = "pr_score"]
    /\ UNCHANGED <<receipts, local, resp, nreq, issued, calcVars>>

\* faulty variant of the scoring: points sent by the client are kept
ScoreMutKeepPoints(r) == IF r.Points # 0 THEN r ELSE calculatePoints(r)

\* the receipt after calculatePoints(&receipt)
Score(r) == calculatePoints(r)

\* line 77
ProcessReceiptScore(p) ==
    /\ pc[p] = "pr_score"
    /\ local' = [local EXCEPT ![p].receipt = Score(local[p].receipt)]
    /\ pc' = [pc EXCEPT ![p] = "pr_genid"]
    /\ UNCHANGED <<receipts, mutex, resp, nreq, issued, calcVars>>

\* faulty variant of the error path: the insert runs before the err check,
\* under the "" that generateID returns with an error
OnIDErrorMutStore(p) == receipts' = Put(receipts, "", local[p].receipt)

\* lines 81-84: the handler returns without touching the map
OnIDError(p) == receipts' = receipts

\* lines 79-84
ProcessReceiptGenerateID(p) ==
    /\ pc[p] = "pr_genid"
    /\ \E g \in GenerateIDResults :
         IF g.err
         THEN /\ resp' = [resp EXCEPT ![p] =
                            Response(500, "text", "", 0, "rand error")]
              /\ OnIDError(p)
              /\ local' = local
              /\ pc' = [pc EXCEPT ![p] = "pr_unlock"]
         ELSE /\ local' = [local EXCEPT ![p].id = g.id]
              /\ pc' = [pc EXCEPT ![p] = "pr_store"]
              /\ UNCHANGED <<resp, receipts>>
    /\ UNCHANGED <<mutex, nreq, issued, calcVars>>

\* lines 86-94: the insert and the {"id": id} response
ProcessReceiptStore(p) ==
    /\ pc[p] = "pr_store"
    /\ receipts' = Put(receipts, local[p].id, local[p].receipt)
    /\ resp' = [resp EXCEPT ![p] =
                  Response(200, "id", local[p].id, 0, "")]
    /\ issued' = Put(issued, local[p].id,
                     [last |-> local[p].submitted,
                      all  |-> (IF local[p].id \in DOMAIN issued
                                THEN issued[local[p].id].all ELSE {})
                               \cup {local[p].submitted}])
    /\ pc' = [pc EXCEPT ![p] = "pr_unlock"]
    /\ UNCHANGED <<mutex, local, nreq, calcVars>>

\* faulty variant without defer: only the successful path unlocks
ReturnMutKeepLockOnError(p) ==
    IF resp[p].status = 200 THEN MutexUnlock(p) ELSE mutex' = mutex

\* the deferred mutex.Unlock() as the handler returns
DeferredUnlock(p) == MutexUnlock(p)

\* line 75 taking effect at the return of line 83 or 95
ProcessReceiptReturn(p) ==
    /\ pc[p] = "pr_unlock"
    /\ DeferredUnlock(p)
    /\ pc' = [pc EXCEPT ![p] = "idle"]
    /\ local' = [local EXCEPT ![p] = NoLocal]
    /\ resp' = [resp EXCEPT ![p] = NoResponse]
    /\ UNCHANGED <<receipts, nreq, issued, calcVars>>

(***************************************************************************)
(* GetPoints.                                                              *)
(***************************************************************************)
\* line 114: the request arrives, id is the second segment of its path
GetPointsStart(p) ==
    /\ pc[p] = "idle"
    /\ nreq < MaxRequests
    /\ nreq' = nreq + 1
    /\ \E id \in PathIDs :
         local' = [local EXCEPT ![p] = [NoLocal EXCEPT !.id = id]]
    /\ pc' = [pc EXCEPT ![p] = "gp_lock"]
    /\ UNCHANGED <<receipts, mutex, resp, issued, calcVars>>

\* line 116
GetPointsLock(p) ==
    /\ pc[p] = "gp_lock"
    /\ MutexLock(p)
    /\ pc' = [pc EXCEPT ![p] = "gp_lookup"]
    /\ UNCHANGED <<receipts, local, resp, nreq, issued, calcVars>>

\* faulty variant of the lookup: ok is ignored and the zero Receipt of a
\* missing key is answered
LookupMutZeroValue(m, id) ==
    Response(200, "points", "",
             (IF id \in DOMAIN m THEN m[id].Points ELSE 0), "")

\* receipt, ok := receipts[id] and the response of lines 120-126
Lookup(m, id) ==
    IF id \in DOMAIN m
    THEN PointsResponse(m[id].Points)
    ELSE Response(400, "text", "", 0, "Invalid receipt ID")

\* lines 119-126
GetPointsLookup(p) ==
    /\ pc[p] = "gp_lookup"
    /\ resp' = [resp EXCEPT ![p] = Lookup(receipts, local[p].id)]
    /\ pc' = [pc EXCEPT ![p] = "gp_unlock"]
    /\ UNCHANGED <<receipts, mutex, local, nreq, issued, calcVars>>

\* line 117 taking effect at the return of line 122 or 127
GetPointsReturn(p) ==
    /\ pc[p] = "gp_unlock"
    /\ DeferredUnlock(p)
    /\ pc' = [pc EXCEPT ![p] = "idle"]
    /\ local' = [local EXCEPT ![p] = NoLocal]
    /\ resp' = [resp EXCEPT ![p] = NoResponse]
    /\ UNCHANGED <<receipts, nreq, issued, calcVars>>

Init == ServerInit /\ CalcIdle

Next ==
    \E p \in Handlers :
        \/ ProcessReceiptDecode(p)
        \/ ProcessReceiptReject(p)
        \/ ProcessReceiptLock(p)
        \/ ProcessReceiptScore(p)
        \/ ProcessReceiptGenerateID(p)
        \/ ProcessReceiptStore(p)
        \/ ProcessReceiptReturn(p)
        \/ GetPointsStart(p)
        \/ GetPointsLock(p)
        \/ GetPointsLookup(p)
        \/ GetPointsReturn(p)

Spec == Init /\ [][Next]_vars

(***************************************************************************)
(* Scheduling.  The Go scheduler keeps running a goroutine that can take a *)
(* step, and sync.Mutex hands the lock to a goroutine that has waited for  *)
(* it (starvation mode), so a handler blocked in Lock() gets the mutex if  *)
(* it is unlocked again and again.  Clients are not obliged to send        *)
(* requests.                                                               *)
(***************************************************************************)
\* the steps of a handler that do not wait
Run(p) ==
    \/ ProcessReceiptReject(p)
    \/ ProcessReceiptScore(p)
    \/ ProcessReceiptGenerateID(p)
    \/ ProcessReceiptStore(p)
    \/ ProcessReceiptReturn(p)
    \/ GetPointsLookup(p)
    \/ GetPointsReturn(p)

\* mutex.Lock() returning
Acquire(p) == ProcessReceiptLock(p) \/ GetPointsLock(p)

Fairness == \A p \in Handlers : WF_vars(Run(p)) /\ SF_vars(Acquire(p))

LiveSpec == Init /\ [][Next]_vars /\ Fairness

(***************************************************************************)
(* calculatePoints, one rule per step.                                     *)
(***************************************************************************)
CalcInit ==
    /\ ServerInit
    /\ receipt \in ScoreInputs
    /\ points = 0
    /\ pcCalc = "rule1"
    /\ itemIdx = 1

CalcRule1 ==
    /\ pcCalc = "rule1"
    /\ points' = points + Rule1Points(receipt.Retailer)
    /\ pcCalc' = "rule2"
    /\ UNCHANGED <<receipt, itemIdx, serverVars>>

CalcRule2 ==
    /\ pcCalc = "rule2"
    /\ points' = points + Rule2Points(receipt.Total)
    /\ pcCalc' = "rule3"
    /\ UNCHANGED <<receipt, itemIdx, serverVars>>

CalcRule3 ==
    /\ pcCalc = "rule3"
    /\ points' = points + Rule3Points(receipt.Total)
    /\ pcCalc' = "rule4"
    /\ UNCHANGED <<receipt, itemIdx, serverVars>>

CalcRule4 ==
    /\ pcCalc = "rule4"
    /\ points' = points + Rule4Points(receipt.Items)
    /\ pcCalc' = "rule5"
    /\ itemIdx' = 1
    /\ UNCHANGED <<receipt, serverVars>>

\* one iteration of the range loop, or its end
CalcRule5 ==
    /\ pcCalc = "rule5"
    /\ IF itemIdx <= Len(receipt.Items)
       THEN /\ points' = points + Rule5ItemPoints(receipt.Items[itemIdx])
            /\ itemIdx' = itemIdx + 1
            /\ pcCalc' = pcCalc
       ELSE /\ pcCalc' = "rule6"
            /\ UNCHANGED <<points, itemIdx>>
    /\ UNCHANGED <<receipt, serverVars>>

CalcRule6 ==
    /\ pcCalc = "rule6"
    /\ points' = points + Rule6Points(receipt.PurchaseDate)
    /\ pcCalc' = "rule7"
    /\ UNCHANGED <<receipt, itemIdx, serverVars>>

CalcRule7 ==
    /\ pcCalc = "rule7"
    /\ points' = points + Rule7Points(receipt.PurchaseTime)
    /\ pcCalc' = "return"
    /\ UNCHANGED <<receipt, itemIdx, serverVars>>

\* receipt.Points = points
CalcReturn ==
    /\ pcCalc = "return"
    /\ receipt' = [receipt EXCEPT !.Points = points]
    /\ pcCalc' = "done"
    /\ UNCHANGED <<points, itemIdx, serverVars>>

CalcNext ==
    \/ CalcRule1
    \/ CalcRule2
    \/ CalcRule3
    \/ CalcRule4
    \/ CalcRule5
    \/ CalcRule6
    \/ CalcRule7
    \/ CalcReturn

ScoreSpec == CalcInit /\ [][CalcNext]_vars

\* the step-by-step run leaves what calculatePoints(r) computes
CalcAgrees ==
    pcCalc = "done" => receipt = calculatePoints(receipt)

(***************************************************************************)
(* Properties.                                                             *)
(***************************************************************************)
\* the handlers between mutex.Lock() and mutex.Unlock()
InCritical ==
    {p \in Handlers :
        pc[p] \in {"pr_score", "pr_genid", "pr_store", "pr_unlock",
                   "gp_lookup", "gp_unlock"}}

\* r and s agree on retailer, date, time, items and total
SameFields(r, s) ==
    /\ r.Retailer = s.Retailer
    /\ r.PurchaseDate = s.PurchaseDate
    /\ r.PurchaseTime = s.PurchaseTime
    /\ r.Items = s.Items
    /\ r.Total = s.Total

\* C1 as stated: a GetPoints(id) answers 200 with the score of every
\* receipt whose submission returned id.
C1_RoundTripEverySubmission ==
    \A p \in Handlers :
        (pc[p] = "gp_unlock" /\ local[p].id \in DOMAIN issued) =>
            \A r \in issued[local[p].id].all :
                resp[p] = PointsResponse(PointsOf(r))

\* C1 amended: a GetPoints(id) for an id some submission returned answers
\* 200 with the score calculatePoints computes from the fields of the
\* receipt most recently stored under id, whatever "points" the client sent.
C1_RoundTripLatest ==
    \A p \in Handlers :
        (pc[p] = "gp_unlock" /\ local[p].id \in DOMAIN issued) =>
            resp[p] = PointsResponse(PointsOf(issued[local[p].id].last))

\* a lookup has answered for a receipt submitted with "points": 7
C1_Witness ==
    \E p \in Handlers :
        /\ pc[p] = "gp_unlock"
        /\ local[p].id \in DOMAIN issued
        /\ issued[local[p].id].last.Points = 7
        /\ resp[p].status = 200
        /\ resp[p].points # 7

\* C2 as stated: no step changes or removes a record of the map.
C2_NeverMutated ==
    [][\A id \in DOMAIN receipts :
           id \in DOMAIN receipts' /\ receipts'[id] = receipts[id]]_vars

\* C2 amended: no step removes a record, and a record changes only in the
\* insert of a ProcessReceipt whose generateID returned the same id, which
\* replaces it by that handler's scored receipt.
C2_ChangedOnlyByOverwrite ==
    [][\A id \in DOMAIN receipts :
           /\ id \in DOMAIN receipts'
           /\ receipts'[id] # receipts[id] =>
                \E p \in Handlers :
                    /\ pc[p] = "pr_store"
                    /\ pc'[p] = "pr_unlock"
                    /\ local[p].id = id
                    /\ receipts'[id] = local[p].receipt]_vars

\* a record has been looked up after a second record was stored
C2_Witness ==
    \E p \in Handlers :
        /\ pc[p] = "gp_unlock"
        /\ local[p].id \in DOMAIN receipts
        /\ Cardinality(DOMAIN receipts) = 2

\* C3: the lookup of an id that no successful submission has returned
\* answers 400 "Invalid receipt ID" and leaves the map as it is.
C3_UnknownIdRejected ==
    [][\A p \in Handlers :
           (/\ pc[p] = "gp_lookup"
            /\ pc'[p] = "gp_unlock"
            /\ local[p].id \notin DOMAIN issued) =>
               /\ resp'[p] = Response(400, "text", "", 0, "Invalid receipt ID")
               /\ receipts' = receipts]_vars

\* an id never returned has been looked up while the map holds a record
C3_Witness ==
    \E p \in Handlers :
        /\ pc[p] = "gp_unlock"
        /\ local[p].id \notin DOMAIN issued
        /\ resp[p].status = 400
        /\ receipts # EmptyMap

\* C4: no step of a ProcessReceipt that fails (400 on a body that does not
\* decode, 500 on a generateID error) changes the map, its response holds
\* no id, and the map changes only in the step that answers 200 with the id.
C4_FailureLeavesStore ==
    [][/\ \A p \in Handlers :
            /\ (pc[p] = "idle" /\ pc'[p] = "pr_return") =>
                   /\ receipts' = receipts
                   /\ resp'[p].status = 400
                   /\ resp'[p].kind = "text"
            /\ (pc[p] = "pr_genid" /\ pc'[p] = "pr_unlock") =>
                   /\ receipts' = receipts
                   /\ resp'[p].status = 500
                   /\ resp'[p].kind = "text"
            /\ (pc[p] \in {"pr_return", "pr_lock", "pr_score"}
                /\ pc'[p] # pc[p]) => receipts' = receipts
            /\ (pc[p] = "pr_unlock" /\ pc'[p] = "idle") =>
                   receipts' = receipts
       /\ receipts' # receipts =>
            \E p \in Handlers :
                /\ pc[p] = "pr_store"
                /\ resp'[p] = Response(200, "id", local[p].id, 0, "")
                /\ DOMAIN receipts' = DOMAIN receipts \cup {local[p].id}]_vars

\* one submission has answered 500 and another 400 while the map holds a
\* record
C4_Witness ==
    \E p, q \in Handlers :
        /\ pc[p] = "pr_unlock"
        /\ resp[p].status = 500
        /\ pc[q] = "pr_return"
        /\ resp[q].status = 400
        /\ receipts # EmptyMap

\* C5: a total that does not parse adds 0 in rules 2 and 3, an item price
\* that does not parse adds 0 for its item in rule 5, a date that does not
\* parse adds 0 in rule 6 and a time that does not parse adds 0 in rule 7.
C5_ParseFailureAddsZero ==
    [][/\ (pcCalc \in {"rule2", "rule3"} /\ FloatError(receipt.Total)) =>
              points' = points
       /\ (/\ pcCalc = "rule5"
           /\ itemIdx <= Len(receipt.Items)
           /\ FloatError(receipt.Items[itemIdx].Price)) => points' = points
       /\ (pcCalc = "rule6" /\ DateError(receipt.PurchaseDate)) =>
              points' = points
       /\ (pcCalc = "rule7" /\ TimeError(receipt.PurchaseTime)) =>
              points' = points]_vars

\* C6 as stated: the Target receipt scores 14.
C6_TargetScores14 ==
    (pcCalc = "done" /\ SameFields(receipt, TargetReceipt)) =>
        receipt.Points = 14

\* C6 amended: the Target receipt scores 12: 6 for the retailer, 6 for the
\* odd day and nothing from rule 5, the trimmed description being 17 long.
C6_TargetScores12 ==
    (pcCalc = "done" /\ SameFields(receipt, TargetReceipt)) =>
        /\ receipt.Points = 12
        /\ Rule1Points(receipt.Retailer) = 6
        /\ Rule6Points(receipt.PurchaseDate) = 6
        /\ Rule5Points(receipt.Items) = 0
        /\ ByteLen(TrimSpace(receipt.Items[1].ShortDescription)) = 17

\* calculatePoints has returned for the Target receipt
C6_Witness == pcCalc = "done" /\ SameFields(receipt, TargetReceipt)

\* what C7 says an item adds: nothing when its trimmed description is
\* empty, else ceil(price * 0.2) when the trimmed length (as len() measures
\* it) is divisible by 3 and that value is positive, else nothing
C7_Expected(item) ==
    LET desc == TrimSpace(item.ShortDescription)
        fifth == CeilFifth(ParseFloat(item.Price))
    IN  IF desc = <<>> THEN 0
        ELSE IF ByteLen(desc) % 3 = 0 /\ fifth > 0 THEN fifth ELSE 0

\* C7: each iteration of rule 5 adds what C7_Expected gives for its item.
C7_Rule5Contribution ==
    [][(pcCalc = "rule5" /\ itemIdx <= Len(receipt.Items)) =>
           points' = points + C7_Expected(receipt.Items[itemIdx])]_vars

\* the runes of s that are letters or digits
C8_LettersAndDigits(s) ==
    Cardinality({i \in 1..Len(s) : IsLetter(s[i]) \/ IsDigit(s[i])})

\* C8: rule 1 adds one point per rune of the retailer name that is a
\* Unicode letter or digit.
C8_OnePointPerLetterOrDigit ==
    [][pcCalc = "rule1" =>
           points' = points + C8_LettersAndDigits(receipt.Retailer)]_vars

\* C9: at most one handler is between mutex.Lock() and mutex.Unlock(), and
\* it is the one holding the mutex.
C9_MutualExclusion ==
    /\ Cardinality(InCritical) <= 1
    /\ \A p \in InCritical : mutex = p

\* a submission is scoring or storing while another request waits in Lock()
C9_Witness ==
    \E p, q \in Handlers :
        /\ pc[p] \in {"pr_score", "pr_genid", "pr_store"}
        /\ pc[q] \in {"pr_lock", "gp_lock"}

\* C10: a handler returns only after writing a response, and under the
\* fairness of LiveSpec every request that has started returns with the
\* mutex released: the lock is granted to a waiting request and released
\* on every path, the 500 of ProcessReceipt and the 400 of GetPoints
\* included.
C10_EveryRequestReturns ==
    /\ [][\A p \in Handlers :
              (pc[p] # "idle" /\ pc'[p] = "idle") =>
                  resp[p].status \in {200, 400, 500}]_vars
    /\ \A p \in Handlers :
           (pc[p] # "idle" \/ mutex = p) ~> (pc[p] = "idle" /\ mutex # p)

\* a request waits in Lock() while a submission that answered 500 holds
\* the mutex
C10_Witness ==
    \E p, q \in Handlers :
        /\ pc[p] = "pr_unlock"
        /\ resp[p].status = 500
        /\ mutex = p
        /\ pc[q] \in {"pr_lock", "gp_lock"}

=============================================================================
